---- MODULE Spec2Model ----
(***************************************************************************)
(* The tool-use conversation state machine of the MCP playground:          *)
(* ConversationManager (conversation_manager.py) and the driver steps of   *)
(* app.py that call it.  The session object is a record of the fields of   *)
(* ConversationManager; every method is an operator from a session to the  *)
(* session the call leaves behind, and every action applies one operation  *)
(* of the driver-facing surface to the current session.  Time is kept as   *)
(* the relation of state_transition_time to the clock: "unset" (None),     *)
(* "recent" (the state held no longer than the timeout threshold) and      *)
(* "overdue" (held longer).                                                *)
(***************************************************************************)
EXTENDS Integers, Sequences, FiniteSets, TLC

VARIABLES
    messages,               \* self.messages: the transcript
    tool_calls,             \* self.tool_calls: tool_use_id -> tool name
    state,                  \* self.state
    pending_tool_uses,      \* self.pending_tool_uses
    used_tool_results,      \* self.used_tool_results
    current_tool_use_id,    \* self.current_tool_use_id (NoId is None)
    error_counts,           \* self.error_counts: tool_use_id -> count
    last_error,             \* self.last_error (NoError is None)
    state_transition_time,  \* self.state_transition_time against the clock
    errorCalls,             \* observer: error results fed per id since it was registered
    scn,                    \* observer: position in the scenario of section 8
    mcp_servers,            \* BedrockMcpAdapter._mcp_servers: server name -> url, tools
    name_mapping            \* BedrockMcpAdapter._name_mapping: qualified name -> server, method

vars == <<messages, tool_calls, state, pending_tool_uses, used_tool_results,
          current_tool_use_id, error_counts, last_error, state_transition_time,
          errorCalls, scn, mcp_servers, name_mapping>>

(***************************************************************************)
(* Bounds of the model.                                                    *)
(***************************************************************************)
MaxMsgs == 4

(***************************************************************************)
(* Program constants.                                                      *)
(***************************************************************************)
max_retries == 3

IDLE == "idle"
WAITING_FOR_RESPONSE == "waiting"
PROCESSING_TOOLS == "processing_tools"
CONTINUING == "continuing"
ERROR == "error"

ConversationState == {IDLE, WAITING_FOR_RESPONSE, PROCESSING_TOOLS, CONTINUING, ERROR}

NoId == 0
NoError == "none"

(***************************************************************************)
(* Content blocks.  The source tags a block by the key it carries; every   *)
(* block here is a record with the tag k, the toolUseId (NoId for text),   *)
(* the payload format of a toolResult and a value.                         *)
(***************************************************************************)
TextBlock(t) == [k |-> "text", id |-> NoId, fmt |-> "", v |-> t]
ToolUseBlock(i) == [k |-> "toolUse", id |-> i, fmt |-> "", v |-> "get-product"]
ToolResultBlock(i, f, c) == [k |-> "toolResult", id |-> i, fmt |-> f, v |-> c]
CachePointBlock == [k |-> "cachePoint", id |-> NoId, fmt |-> "", v |-> "default"]

Message(r, c) == [role |-> r, content |-> c]

(***************************************************************************)
(* Inputs.  A tool result is a dict that may carry "error" and "content".  *)
(***************************************************************************)
ErrResult == [error |-> TRUE, ctype |-> "absent", cval |-> ""]
StrResult == [error |-> FALSE, ctype |-> "str", cval |-> "ok"]
ObjResult == [error |-> FALSE, ctype |-> "obj", cval |-> "product"]
Results == {ErrResult, StrResult, ObjResult}

UserTexts == {"show me product X"}

ToolUseIds == {1, 2}

\* The content lists a gateway response may carry: none, text only, one or
\* two tool requests, text before and after a tool request.
ResponseContents ==
    {<<>>,
     <<TextBlock("answer")>>,
     <<ToolUseBlock(1)>>,
     <<ToolUseBlock(2)>>,
     <<ToolUseBlock(1), ToolUseBlock(2)>>,
     <<TextBlock("answer"), ToolUseBlock(1)>>,
     <<ToolUseBlock(2), TextBlock("answer")>>}

\* A gateway response: with or without an output message, whose content is
\* a list of blocks.
Responses ==
    {[hasMessage |-> FALSE, content |-> <<>>]}
    \cup {[hasMessage |-> TRUE, content |-> c] : c \in ResponseContents}

(***************************************************************************)
(* The session as one record.                                              *)
(***************************************************************************)
Self ==
    [messages |-> messages, tool_calls |-> tool_calls, state |-> state,
     pending_tool_uses |-> pending_tool_uses,
     used_tool_results |-> used_tool_results,
     current_tool_use_id |-> current_tool_use_id,
     error_counts |-> error_counts, last_error |-> last_error,
     state_transition_time |-> state_transition_time]

SetSelf(s) ==
    /\ messages' = s.messages
    /\ tool_calls' = s.tool_calls
    /\ state' = s.state
    /\ pending_tool_uses' = s.pending_tool_uses
    /\ used_tool_results' = s.used_tool_results
    /\ current_tool_use_id' = s.current_tool_use_id
    /\ error_counts' = s.error_counts
    /\ last_error' = s.last_error
    /\ state_transition_time' = s.state_transition_time
    /\ UNCHANGED <<mcp_servers, name_mapping>>

\* dict assignment d[key] = val
Put(d, key, val) == (key :> val) @@ d
\* dict.get(key, default)
Get(d, key, default) == IF key \in DOMAIN d THEN d[key] ELSE default
EmptyDict == <<>>

\* ConversationManager.__init__
InitSelf ==
    [messages |-> <<>>, tool_calls |-> EmptyDict, state |-> IDLE,
     pending_tool_uses |-> {}, used_tool_results |-> {},
     current_tool_use_id |-> NoId, error_counts |-> EmptyDict,
     last_error |-> NoError, state_transition_time |-> "unset"]

(***************************************************************************)
(* transition_to: records the new state and the time of the transition     *)
(* ("recent": not yet held longer than the timeout threshold); entering    *)
(* IDLE clears the processing state.                                       *)
(***************************************************************************)
transition_to(self, new_state) ==
    [self EXCEPT
        !.state = new_state,
        !.state_transition_time = "recent",
        !.pending_tool_uses = IF new_state = IDLE THEN {} ELSE @,
        !.current_tool_use_id = IF new_state = IDLE THEN NoId ELSE @,
        !.last_error = IF new_state = IDLE THEN NoError ELSE @]

is_idle(self) == self.state = IDLE

\* the state check left out
add_user_message_unguarded(self, content) ==
    [self EXCEPT !.messages = Append(@, Message("user", <<[k |-> "text", id |-> 0, fmt |-> "", v |-> content]>>))]

(***************************************************************************)
(* add_user_message                                                        *)
(***************************************************************************)
add_user_message(self, content) ==
    IF self.state # IDLE
    THEN self
    ELSE [self EXCEPT !.messages = Append(@, Message("user", <<TextBlock(content)>>))]

(***************************************************************************)
(* process_bedrock_response: no state check; registers every toolUse block *)
(* of the output message, appends the message when it has content, then    *)
(* moves to PROCESSING_TOOLS or IDLE.  A response with no output message   *)
(* changes nothing.                                                        *)
(***************************************************************************)
ToolUseIdsOf(content) ==
    {content[j].id : j \in {n \in DOMAIN content : content[n].k = "toolUse"}}

\* the toolUse dict the loop leaves in tool_calls[i]: the last block with id i
LastToolUse(content, i) ==
    LET hits == {n \in DOMAIN content : content[n].k = "toolUse" /\ content[n].id = i}
    IN content[CHOOSE n \in hits : \A m \in hits : m <= n].v

\* the message rebuilt from the separated lists: text blocks first, toolUse
\* blocks after them
process_bedrock_response_regrouped(self, response) ==
    IF ~response.hasMessage
    THEN self
    ELSE
        LET content_blocks == response.content
            ids == {content_blocks[j].id :
                       j \in {n \in DOMAIN content_blocks : content_blocks[n].k = "toolUse"}}
            regrouped ==
                SelectSeq(content_blocks, LAMBDA b : b.k = "text")
                \o SelectSeq(content_blocks, LAMBDA b : b.k = "toolUse")
            tracked ==
                [self EXCEPT
                    !.tool_calls =
                        [i \in (DOMAIN @) \cup ids |-> IF i \in ids THEN "get-product" ELSE @[i]],
                    !.pending_tool_uses = @ \cup ids,
                    !.error_counts =
                        [i \in (DOMAIN @) \cup ids |-> IF i \in ids THEN 0 ELSE @[i]]]
            appended ==
                IF content_blocks # <<>>
                THEN [tracked EXCEPT !.messages = Append(@, Message("assistant", regrouped))]
                ELSE tracked
        IN IF ids # {}
           THEN transition_to(appended, PROCESSING_TOOLS)
           ELSE transition_to(appended, IDLE)

\* the toolUse details not stored in tool_calls
process_bedrock_response_without_details(self, response) ==
    IF ~response.hasMessage
    THEN self
    ELSE
        LET content_blocks == response.content
            ids == {content_blocks[j].id :
                       j \in {n \in DOMAIN content_blocks : content_blocks[n].k = "toolUse"}}
            tracked ==
                [self EXCEPT
                    !.pending_tool_uses = @ \cup ids,
                    !.error_counts =
                        [i \in (DOMAIN @) \cup ids |-> IF i \in ids THEN 0 ELSE @[i]]]
            appended ==
                IF content_blocks # <<>>
                THEN [tracked EXCEPT !.messages = Append(@, Message("assistant", content_blocks))]
                ELSE tracked
        IN IF ids # {}
           THEN transition_to(appended, PROCESSING_TOOLS)
           ELSE transition_to(appended, IDLE)

process_bedrock_response(self, response) ==
    IF ~response.hasMessage
    THEN self
    ELSE
        LET content_blocks == response.content
            ids == ToolUseIdsOf(content_blocks)
            tracked ==
                [self EXCEPT
                    !.tool_calls =
                        [i \in (DOMAIN @) \cup ids |->
                            IF i \in ids THEN LastToolUse(content_blocks, i) ELSE @[i]],
                    !.pending_tool_uses = @ \cup ids,
                    !.error_counts =
                        [i \in (DOMAIN @) \cup ids |-> IF i \in ids THEN 0 ELSE @[i]]]
            appended ==
                IF content_blocks # <<>>
                THEN [tracked EXCEPT
                        !.messages = Append(@, Message("assistant", content_blocks))]
                ELSE tracked
        IN IF ids # {}
           THEN transition_to(appended, PROCESSING_TOOLS)
           ELSE transition_to(appended, IDLE)

\* result["text"] of process_bedrock_response: the text of the text blocks,
\* concatenated in response order (kept as the sequence of the fragments)
RECURSIVE concat_text(_)
concat_text(content) ==
    IF content = <<>>
    THEN <<>>
    ELSE IF Head(content).k = "text"
         THEN <<Head(content).v>> \o concat_text(Tail(content))
         ELSE concat_text(Tail(content))

result_text(response) ==
    IF response.hasMessage THEN concat_text(response.content) ELSE <<>>

\* result["tool_uses"] of process_bedrock_response
tool_uses(response) ==
    IF response.hasMessage
    THEN SelectSeq(response.content, LAMBDA b : b.k = "toolUse")
    ELSE <<>>

(***************************************************************************)
(* add_tool_result                                                         *)
(***************************************************************************)
\* the scan of the message history for a toolUse block with this id
tool_exists_in_history(msgs, tool_use_id) ==
    \E n \in DOMAIN msgs :
        /\ msgs[n].role = "assistant"
        /\ \E j \in DOMAIN msgs[n].content :
              /\ msgs[n].content[j].k = "toolUse"
              /\ msgs[n].content[j].id = tool_use_id

\* the toolUse dict the scan leaves in tool_calls: that of the last message
\* holding the id (the break leaves only the inner loop)
HistoryToolUse(msgs, tool_use_id) ==
    LET holds(n) ==
            /\ msgs[n].role = "assistant"
            /\ \E j \in DOMAIN msgs[n].content :
                  /\ msgs[n].content[j].k = "toolUse"
                  /\ msgs[n].content[j].id = tool_use_id
        last == CHOOSE n \in DOMAIN msgs : holds(n) /\ \A m \in DOMAIN msgs : holds(m) => m <= n
        c == msgs[last].content
        first == CHOOSE j \in DOMAIN c :
                    /\ c[j].k = "toolUse" /\ c[j].id = tool_use_id
                    /\ \A m \in DOMAIN c : (c[m].k = "toolUse" /\ c[m].id = tool_use_id) => j <= m
    IN c[first].v

\* lines 211-230: an id that is not pending is looked up in the history and,
\* when found there, re-added to the pending set
readmit(self, tool_use_id) ==
    IF tool_use_id \in self.pending_tool_uses
    THEN self
    ELSE IF tool_exists_in_history(self.messages, tool_use_id)
         THEN [self EXCEPT
                 !.pending_tool_uses = @ \cup {tool_use_id},
                 !.tool_calls = Put(@, tool_use_id, HistoryToolUse(self.messages, tool_use_id))]
         ELSE self

\* every payload wrapped as text, the structured one included
result_content_always_text(result) ==
    [fmt |-> "text", v |-> IF result.ctype = "absent" THEN "" ELSE result.cval]

\* lines 255-260: the content payload of the toolResult
result_content(result) ==
    LET content_value == IF result.ctype = "absent" THEN "" ELSE result.cval
    IN IF result.ctype = "obj"
       THEN [fmt |-> "json", v |-> content_value]
       ELSE [fmt |-> "text", v |-> content_value]

\* the result recorded, the transition to CONTINUING forgotten
record_result_no_transition(self, tool_use_id, result) ==
    [self EXCEPT
        !.messages = Append(@, Message("user",
            <<ToolResultBlock(tool_use_id, "text", result.cval)>>)),
        !.used_tool_results = @ \cup {tool_use_id},
        !.pending_tool_uses = @ \ {tool_use_id}]

\* lines 262-294: record the terminal result
record_result(self, tool_use_id, result) ==
    LET rc == result_content(result)
        tool_result_message ==
            Message("user", <<ToolResultBlock(tool_use_id, rc.fmt, rc.v)>>)
        recorded ==
            [self EXCEPT
                !.messages = Append(@, tool_result_message),
                !.used_tool_results = @ \cup {tool_use_id},
                !.pending_tool_uses = @ \ {tool_use_id},
                !.current_tool_use_id = IF @ = tool_use_id THEN NoId ELSE @]
    IN IF recorded.pending_tool_uses = {} /\ recorded.state = PROCESSING_TOOLS
       THEN transition_to(recorded, CONTINUING)
       ELSE recorded

\* the ceiling test off by one: the terminal result one call early
exceeded_max_retries_at(count) == count >= max_retries

\* line 247: the retry ceiling
exceeded_max_retries(count) == count > max_retries

\* the lookup of the id in the pending set and the history left out
add_tool_result_unvalidated(self, tool_use_id, result) ==
    IF tool_use_id \in self.used_tool_results
    THEN self
    ELSE [self EXCEPT
            !.messages = Append(@, Message("user",
                <<ToolResultBlock(tool_use_id, "text", result.cval)>>)),
            !.used_tool_results = @ \cup {tool_use_id},
            !.pending_tool_uses = @ \ {tool_use_id}]

\* the retry path taking the id out of the pending set
add_tool_result_retry_unpends(self, tool_use_id, result) ==
    IF tool_use_id \notin self.pending_tool_uses
       /\ ~tool_exists_in_history(self.messages, tool_use_id)
    THEN self
    ELSE
        LET s1 == readmit(self, tool_use_id)
        IN IF tool_use_id \in s1.used_tool_results
           THEN s1
           ELSE IF result.error
                THEN LET count == Get(s1.error_counts, tool_use_id, 0) + 1
                         s2 == [s1 EXCEPT !.error_counts = Put(@, tool_use_id, count)]
                     IN IF exceeded_max_retries(count)
                        THEN record_result(s2, tool_use_id, result)
                        ELSE [s2 EXCEPT !.pending_tool_uses = @ \ {tool_use_id}]
                ELSE record_result(s1, tool_use_id, result)

\* the test for an id that already has a result left out
add_tool_result_no_duplicate_test(self, tool_use_id, result) ==
    IF tool_use_id \notin self.pending_tool_uses
       /\ ~tool_exists_in_history(self.messages, tool_use_id)
    THEN self
    ELSE
        LET s1 == readmit(self, tool_use_id)
        IN IF result.error
           THEN LET count == Get(s1.error_counts, tool_use_id, 0) + 1
                    s2 == [s1 EXCEPT !.error_counts = Put(@, tool_use_id, count)]
                IN IF exceeded_max_retries(count)
                   THEN record_result(s2, tool_use_id, result)
                   ELSE s2
           ELSE record_result(s1, tool_use_id, result)

\* the error counted before the test for an id that already has a result
add_tool_result_counts_duplicates(self, tool_use_id, result) ==
    IF tool_use_id \notin self.pending_tool_uses
       /\ ~tool_exists_in_history(self.messages, tool_use_id)
    THEN self
    ELSE
        LET s1 == readmit(self, tool_use_id)
            count == Get(s1.error_counts, tool_use_id, 0) + 1
            s2 == IF result.error
                  THEN [s1 EXCEPT !.error_counts = Put(@, tool_use_id, count)]
                  ELSE s1
        IN IF tool_use_id \in s1.used_tool_results
           THEN s2
           ELSE IF result.error /\ ~exceeded_max_retries(count)
                THEN s2
                ELSE record_result(s2, tool_use_id, result)

add_tool_result(self, tool_use_id, result) ==
    IF tool_use_id \notin self.pending_tool_uses
       /\ ~tool_exists_in_history(self.messages, tool_use_id)
    THEN self
    ELSE
        LET s1 == readmit(self, tool_use_id)
        IN IF tool_use_id \in s1.used_tool_results
           THEN s1
           ELSE IF result.error
                THEN LET count == Get(s1.error_counts, tool_use_id, 0) + 1
                         s2 == [s1 EXCEPT !.error_counts = Put(@, tool_use_id, count)]
                     IN IF exceeded_max_retries(count)
                        THEN record_result(s2, tool_use_id, result)
                        ELSE s2
                ELSE record_result(s1, tool_use_id, result)

\* the value add_tool_result returns: the toolResult message, or None
add_tool_result_returns_message(self, tool_use_id, result) ==
    Len(add_tool_result(self, tool_use_id, result).messages) = Len(self.messages) + 1

(***************************************************************************)
(* get_bedrock_messages, with the repair pass and the cachePoint filter    *)
(***************************************************************************)
\* lines 315-319: a message that is no dict with a role and a content
has_errors(msgs) ==
    \E n \in DOMAIN msgs : ~({"role", "content"} \subseteq DOMAIN msgs[n])

\* lines 421-439: give every message a role and a content list
fix_message(msg) ==
    [role |-> IF "role" \in DOMAIN msg THEN msg.role ELSE "user",
     content |-> IF "content" \in DOMAIN msg THEN msg.content ELSE <<>>]

\* the index advanced after a merge as well: a third message of the same role
\* is compared with nothing
RECURSIVE merge_same_role_advancing(_, _)
merge_same_role_advancing(msgs, i) ==
    IF i >= Len(msgs)
    THEN msgs
    ELSE IF msgs[i].role = msgs[i + 1].role
         THEN merge_same_role_advancing(
                 [n \in 1..(Len(msgs) - 1) |->
                     IF n < i THEN msgs[n]
                     ELSE IF n = i
                          THEN Message(msgs[i].role, msgs[i].content \o msgs[i + 1].content)
                          ELSE msgs[n + 1]],
                 i + 1)
         ELSE merge_same_role_advancing(msgs, i + 1)

\* lines 444-457: merge every message into its predecessor of the same role
RECURSIVE merge_same_role(_, _)
merge_same_role(msgs, i) ==
    IF i >= Len(msgs)
    THEN msgs
    ELSE IF msgs[i].role = msgs[i + 1].role
         THEN merge_same_role(
                 [n \in 1..(Len(msgs) - 1) |->
                     IF n < i THEN msgs[n]
                     ELSE IF n = i
                          THEN Message(msgs[i].role, msgs[i].content \o msgs[i + 1].content)
                          ELSE msgs[n + 1]],
                 i)
         ELSE merge_same_role(msgs, i + 1)

repair_message_sequence(msgs) ==
    merge_same_role([n \in DOMAIN msgs |-> fix_message(msgs[n])], 1)

remove_cache_checkpoint(msgs) ==
    [n \in DOMAIN msgs |->
        [msgs[n] EXCEPT !.content = SelectSeq(@, LAMBDA b : b.k # "cachePoint")]]

\* the repair pass run on every call, not only on messages without role or
\* content
get_bedrock_messages_always_repairs(self) ==
    [self EXCEPT !.messages = remove_cache_checkpoint(repair_message_sequence(self.messages))]

get_bedrock_messages(self) ==
    LET repaired ==
            IF has_errors(self.messages)
            THEN repair_message_sequence(self.messages)
            ELSE self.messages
    IN [self EXCEPT !.messages = remove_cache_checkpoint(repaired)]

(***************************************************************************)
(* force_continue: resolves every pending id with a synthetic result, in   *)
(* the iteration order of the pending set, then moves to CONTINUING.       *)
(***************************************************************************)
\* the synthetic result flagged as an error, hence under the retry ceiling
SyntheticResult_as_error ==
    [error |-> TRUE, ctype |-> "str", cval |-> "unable to complete tool"]

SyntheticResult ==
    [error |-> FALSE, ctype |-> "str", cval |-> "unable to complete tool"]

RECURSIVE resolve_all(_, _)
resolve_all(self, order) ==
    IF order = <<>>
    THEN self
    ELSE resolve_all(add_tool_result(self, Head(order), SyntheticResult), Tail(order))

force_continue(self, order) ==
    IF self.state = ERROR \/ self.state = IDLE
    THEN self
    ELSE transition_to(resolve_all(self, order), CONTINUING)

\* the orders in which list(self.pending_tool_uses) may enumerate a set
Orders(S) ==
    {o \in [1..Cardinality(S) -> S] : \A a, b \in DOMAIN o : o[a] = o[b] => a = b}

(***************************************************************************)
(* reset and handle_timeout                                                *)
(***************************************************************************)
\* the resolved set left out of the clearing
reset_keeps_resolved(self) ==
    [InitSelf EXCEPT !.state_transition_time = self.state_transition_time,
                     !.used_tool_results = self.used_tool_results]

reset(self) ==
    [InitSelf EXCEPT !.state_transition_time = self.state_transition_time]

\* the threshold ignored: any state entered by a transition counts as overdue
timed_out_at_once(self) == self.state_transition_time # "unset"

\* the duration never found above the threshold
timed_out_never(self) == FALSE

\* get_state_duration() > max_duration
timed_out(self) == self.state_transition_time = "overdue"

\* the timeout of WAITING_FOR_RESPONSE not recorded as the error
handle_timeout_unrecorded(self, order) ==
    IF ~timed_out(self)
    THEN self
    ELSE IF self.state = PROCESSING_TOOLS
         THEN force_continue(self, order)
         ELSE IF self.state = WAITING_FOR_RESPONSE
              THEN transition_to(self, ERROR)
              ELSE IF self.state = CONTINUING
                   THEN transition_to(self, IDLE)
                   ELSE self

\* a stuck continuation sent back to the gateway instead of to IDLE
handle_timeout_retries_gateway(self, order) ==
    IF ~timed_out(self)
    THEN self
    ELSE IF self.state = PROCESSING_TOOLS
         THEN force_continue(self, order)
         ELSE IF self.state = WAITING_FOR_RESPONSE
              THEN transition_to(
                      [self EXCEPT !.last_error = "Timed out waiting for Bedrock response"],
                      ERROR)
              ELSE IF self.state = CONTINUING
                   THEN transition_to(self, WAITING_FOR_RESPONSE)
                   ELSE self

handle_timeout(self, order) ==
    IF ~timed_out(self)
    THEN self
    ELSE IF self.state = PROCESSING_TOOLS
         THEN force_continue(self, order)
         ELSE IF self.state = WAITING_FOR_RESPONSE
              THEN transition_to(
                      [self EXCEPT !.last_error = "Timed out waiting for Bedrock response"],
                      ERROR)
              ELSE IF self.state = CONTINUING
                   THEN transition_to(self, IDLE)
                   ELSE self

(***************************************************************************)
(* The observers.  errorCalls[i] counts the error results fed for i while  *)
(* i is pending with no recorded result, from zero at its registration.    *)
(* scn follows the scenario of the specification's section 8: step k is    *)
(* reached when the first k calls since the fresh session are those of the *)
(* scenario, any other call leaves it.                                     *)
(***************************************************************************)
OffScenario == [step |-> -1, id |-> NoId]
AtStep(n, i) == [step |-> n, id |-> i]

\* a tool request the session knows of and has recorded no result for
Open(self, i) ==
    /\ i \notin self.used_tool_results
    /\ \/ i \in self.pending_tool_uses
       \/ \E n \in DOMAIN self.messages : \E j \in DOMAIN self.messages[n].content :
             self.messages[n].content[j] = ToolUseBlock(i)

Min(a, b) == IF a < b THEN a ELSE b

ObserveOther == scn' = OffScenario

(***************************************************************************)
(* Init: the session after construction.                                   *)
(***************************************************************************)
Init ==
    /\ messages = InitSelf.messages
    /\ tool_calls = InitSelf.tool_calls
    /\ state = InitSelf.state
    /\ pending_tool_uses = InitSelf.pending_tool_uses
    /\ used_tool_results = InitSelf.used_tool_results
    /\ current_tool_use_id = InitSelf.current_tool_use_id
    /\ error_counts = InitSelf.error_counts
    /\ last_error = InitSelf.last_error
    /\ state_transition_time = InitSelf.state_transition_time
    /\ errorCalls = [i \in ToolUseIds |-> 0]
    /\ scn = AtStep(0, NoId)
    /\ mcp_servers = EmptyDict
    /\ name_mapping = EmptyDict

\* the transcript stays within the bound of the model
Fits(s) == Len(s.messages) <= MaxMsgs

(***************************************************************************)
(* SubmitUserTurn: the chat input of app.py.  In IDLE the input is enabled *)
(* and the handler adds the user message, reads the transcript for the     *)
(* gateway and moves to WAITING_FOR_RESPONSE; in any other state the call  *)
(* of add_user_message returns None.                                       *)
(***************************************************************************)
\* the transition to WAITING_FOR_RESPONSE left out
submit_user_turn_no_transition(self, text) ==
    get_bedrock_messages(add_user_message(self, text))

submit_user_turn(self, text) ==
    IF is_idle(self)
    THEN transition_to(get_bedrock_messages(add_user_message(self, text)),
                       WAITING_FOR_RESPONSE)
    ELSE add_user_message(self, text)

SubmitUserTurn(text) ==
    \E s \in {submit_user_turn(Self, text)} :
       /\ Fits(s)
       /\ SetSelf(s)
       /\ scn' = IF scn.step = 0 THEN AtStep(1, NoId) ELSE OffScenario
       /\ UNCHANGED errorCalls

(***************************************************************************)
(* IngestGatewayResponse: process_bedrock_response on the gateway's reply. *)
(* Both callers (the chat input handler, app.py:935-961, and               *)
(* continue_conversation, app.py:500-520) call it right after their        *)
(* transition to WAITING_FOR_RESPONSE and the gateway call, hence the      *)
(* guard; the method itself checks no state, and what it does when called  *)
(* in another state is read off process_bedrock_response directly.         *)
(* continue_conversation, unlike the chat input handler, moves to IDLE     *)
(* itself when the reply holds no tool use.                                *)
(***************************************************************************)
ingest_gateway_response(self, response, caller) ==
    LET s == process_bedrock_response(self, response)
    IN IF caller = "continue_conversation" /\ tool_uses(response) = <<>>
       THEN transition_to(s, IDLE)
       ELSE s

Callers == {"chat_input", "continue_conversation"}

IngestGatewayResponse(response, caller) ==
    \E s \in {ingest_gateway_response(Self, response, caller)},
       ids \in {IF response.hasMessage THEN ToolUseIdsOf(response.content) ELSE {}} :
       /\ state = WAITING_FOR_RESPONSE
       /\ Fits(s)
       /\ SetSelf(s)
       /\ errorCalls' = [i \in ToolUseIds |-> IF i \in ids THEN 0 ELSE errorCalls[i]]
       /\ scn' =
            IF scn.step = 1 /\ response.hasMessage /\ Len(response.content) = 1
               /\ response.content[1].k = "toolUse"
            THEN AtStep(2, response.content[1].id)
            ELSE IF scn.step = 4 /\ response.hasMessage /\ Len(response.content) = 1
                    /\ response.content[1].k = "text"
                 THEN AtStep(5, scn.id)
                 ELSE OffScenario

(***************************************************************************)
(* ResolveToolRequest: add_tool_result                                     *)
(***************************************************************************)
ResolveToolRequest(tool_use_id, result) ==
    \E s \in {add_tool_result(Self, tool_use_id, result)} :
       /\ Fits(s)
       /\ SetSelf(s)
       /\ errorCalls' =
            IF result.error /\ Open(Self, tool_use_id)
            THEN [errorCalls EXCEPT ![tool_use_id] = Min(@ + 1, max_retries + 2)]
            ELSE errorCalls
       /\ scn' = IF scn.step = 2 /\ tool_use_id = scn.id /\ ~result.error
                 THEN AtStep(3, scn.id)
                 ELSE OffScenario

(***************************************************************************)
(* PrepareContinuation: continue_conversation up to the gateway call       *)
(***************************************************************************)
\* the state test of continue_conversation left out
prepare_continuation_unguarded(self) ==
    transition_to(get_bedrock_messages(self), WAITING_FOR_RESPONSE)

prepare_continuation(self) ==
    IF self.state # CONTINUING
    THEN self
    ELSE transition_to(get_bedrock_messages(self), WAITING_FOR_RESPONSE)

PrepareContinuation ==
    /\ \E s \in {prepare_continuation(Self)} : SetSelf(s)
    /\ scn' = IF scn.step = 3 THEN AtStep(4, scn.id) ELSE OffScenario
    /\ UNCHANGED errorCalls

(***************************************************************************)
(* Reset, HandleTimeout, ForceContinue                                     *)
(***************************************************************************)
Reset ==
    /\ \E s \in {reset(Self)} : SetSelf(s)
    /\ errorCalls' = [i \in ToolUseIds |-> 0]
    /\ scn' = AtStep(0, NoId)

HandleTimeout ==
    \E order \in Orders(pending_tool_uses) :
        \E s \in {handle_timeout(Self, order)} :
           /\ Fits(s)
           /\ SetSelf(s)
           /\ ObserveOther
           /\ UNCHANGED errorCalls

ForceContinue ==
    \E order \in Orders(pending_tool_uses) :
        \E s \in {force_continue(Self, order)} :
           /\ Fits(s)
           /\ SetSelf(s)
           /\ ObserveOther
           /\ UNCHANGED errorCalls

(***************************************************************************)
(* The environment: the gateway call raises (the except branches of the    *)
(* chat input handler and of continue_conversation), and time passes.      *)
(***************************************************************************)
gateway_fault(self) ==
    transition_to([self EXCEPT !.last_error = "gateway error"], ERROR)

GatewayFault ==
    /\ state = WAITING_FOR_RESPONSE
    /\ \E s \in {gateway_fault(Self)} : SetSelf(s)
    /\ ObserveOther
    /\ UNCHANGED errorCalls

\* the current state has now been held longer than the timeout threshold
Tick ==
    /\ state_transition_time = "recent"
    /\ state_transition_time' = "overdue"
    /\ UNCHANGED <<messages, tool_calls, state, pending_tool_uses, used_tool_results,
                   current_tool_use_id, error_counts, last_error, errorCalls, scn,
                   mcp_servers, name_mapping>>

Next ==
    \/ \E text \in UserTexts : SubmitUserTurn(text)
    \/ \E response \in Responses, caller \in Callers : IngestGatewayResponse(response, caller)
    \/ \E tool_use_id \in ToolUseIds, result \in Results : ResolveToolRequest(tool_use_id, result)
    \/ PrepareContinuation
    \/ Reset
    \/ HandleTimeout
    \/ ForceContinue
    \/ GatewayFault
    \/ Tick

Spec == Init /\ [][Next]_vars

(***************************************************************************)
(* Properties of the transcript used by the claims.                        *)
(***************************************************************************)
\* no two consecutive turns share a role
Alternates(msgs) ==
    \A n \in 1..(Len(msgs) - 1) : msgs[n].role # msgs[n + 1].role

HasBlock(msg, kind, i) ==
    \E j \in DOMAIN msg.content : msg.content[j].k = kind /\ msg.content[j].id = i

SyntheticMessage(i) ==
    Message("user", <<ToolResultBlock(i, "text", SyntheticResult.cval)>>)

\* the fields a rejected call must leave alone
Session(self) ==
    <<self.messages, self.pending_tool_uses, self.used_tool_results, self.state>>

(***************************************************************************)
(* C1: whenever the transcript is handed to the Model Gateway (by the chat *)
(* input handler after the user turn is added, by continue_conversation in *)
(* CONTINUING), no two consecutive turns of it share a role.               *)
(***************************************************************************)
C1_HandedTranscriptAlternates ==
    /\ state = CONTINUING => Alternates(get_bedrock_messages(Self).messages)
    /\ state = IDLE =>
          \A text \in UserTexts :
              Alternates(get_bedrock_messages(add_user_message(Self, text)).messages)

(***************************************************************************)
(* C2: a second add_tool_result with the same id and the same result,      *)
(* after the first one recorded a terminal result, leaves the transcript,  *)
(* the pending set, the resolved set and the state as the first call left  *)
(* them.                                                                   *)
(***************************************************************************)
C2_ResolveIdempotent ==
    \A i \in ToolUseIds, result \in Results :
        LET once == add_tool_result(Self, i, result)
        IN add_tool_result_returns_message(Self, i, result)
              => Session(add_tool_result(once, i, result)) = Session(once)

(***************************************************************************)
(* C3: retry ceiling.  For a pending tool request with no recorded result, *)
(* an error result fed when fewer than max_retries error results were fed  *)
(* before it records nothing and leaves the id pending; the error result   *)
(* fed after exactly max_retries of them records the terminal tool result; *)
(* so the first max_retries calls are retries and the next one is final.   *)
(***************************************************************************)
C3_RetryCeiling ==
    [][\A i \in ToolUseIds :
          (/\ ResolveToolRequest(i, ErrResult)
           /\ i \in pending_tool_uses
           /\ i \notin used_tool_results)
          => /\ errorCalls[i] <= max_retries
             /\ errorCalls[i] < max_retries =>
                   /\ messages' = messages
                   /\ i \in pending_tool_uses'
                   /\ i \notin used_tool_results'
             /\ errorCalls[i] = max_retries =>
                   /\ messages' = Append(messages,
                                    Message("user", <<ToolResultBlock(i, "text", "")>>))
                   /\ i \notin pending_tool_uses'
                   /\ i \in used_tool_results']_vars

\* the call after max_retries retries has recorded the terminal error result
C3_Witness ==
    \E i \in ToolUseIds :
        /\ errorCalls[i] = max_retries + 1
        /\ i \in used_tool_results
        /\ messages # <<>>
        /\ messages[Len(messages)] = Message("user", <<ToolResultBlock(i, "text", "")>>)

(***************************************************************************)
(* C4: when handle_timeout fires in PROCESSING_TOOLS with one or more      *)
(* pending ids, none of them resolved, it appends one synthetic tool       *)
(* result per pending id, empties the pending set and leaves the state     *)
(* CONTINUING, whatever the retry counters.                                *)
(***************************************************************************)
C4_TimeoutResolvesPending ==
    [][(/\ HandleTimeout
        /\ state = PROCESSING_TOOLS
        /\ timed_out(Self)
        /\ pending_tool_uses # {}
        /\ pending_tool_uses \cap used_tool_results = {})
       => /\ state' = CONTINUING
          /\ pending_tool_uses' = {}
          /\ Len(messages') = Len(messages) + Cardinality(pending_tool_uses)
          /\ SubSeq(messages', 1, Len(messages)) = messages
          /\ \A i \in pending_tool_uses :
                \E n \in (Len(messages) + 1)..Len(messages') :
                    messages'[n] = SyntheticMessage(i)]_vars

\* two pending ids, one of them with retries counted, resolved by the timeout
C4_Witness ==
    /\ state = CONTINUING
    /\ pending_tool_uses = {}
    /\ Len(messages) >= 3
    /\ \E i, j \in ToolUseIds :
          /\ i # j
          /\ messages[Len(messages) - 1] = SyntheticMessage(i)
          /\ messages[Len(messages)] = SyntheticMessage(j)
          /\ Get(error_counts, i, 0) > 0
          /\ HasBlock(messages[Len(messages) - 2], "toolUse", i)
          /\ HasBlock(messages[Len(messages) - 2], "toolUse", j)

(***************************************************************************)
(* C5: the scenario.  From the fresh session, SubmitUserTurn, then         *)
(* IngestGatewayResponse with one tool request t, ResolveToolRequest of t  *)
(* with a success result, PrepareContinuation and IngestGatewayResponse    *)
(* with text only pass through WAITING_FOR_RESPONSE, PROCESSING_TOOLS with *)
(* pending = {t}, CONTINUING with nothing pending, WAITING_FOR_RESPONSE    *)
(* and IDLE.                                                               *)
(***************************************************************************)
C5_Scenario ==
    /\ scn.step = 0 => state = IDLE /\ pending_tool_uses = {} /\ messages = <<>>
    /\ scn.step = 1 => state = WAITING_FOR_RESPONSE
    /\ scn.step = 2 => state = PROCESSING_TOOLS /\ pending_tool_uses = {scn.id}
    /\ scn.step = 3 => state = CONTINUING /\ pending_tool_uses = {}
    /\ scn.step = 4 => state = WAITING_FOR_RESPONSE
    /\ scn.step = 5 => state = IDLE

C5_Witness == scn.step = 5 /\ Len(messages) = 4

(***************************************************************************)
(* C6: every toolResult block of the transcript sits in a user turn that   *)
(* comes strictly after an assistant turn holding a toolUse block with the *)
(* same id.                                                                *)
(***************************************************************************)
C6_ResultFollowsRequest ==
    \A n \in DOMAIN messages : \A j \in DOMAIN messages[n].content :
        messages[n].content[j].k = "toolResult"
        => /\ messages[n].role = "user"
           /\ \E m \in 1..(n - 1) :
                 /\ messages[m].role = "assistant"
                 /\ HasBlock(messages[m], "toolUse", messages[n].content[j].id)

\* the results of two tool requests recorded, one after the other
C6_Witness ==
    /\ Len(messages) >= 3
    /\ \E i, j \in ToolUseIds :
          /\ i # j
          /\ HasBlock(messages[Len(messages)], "toolResult", i)
          /\ HasBlock(messages[Len(messages) - 1], "toolResult", j)

(***************************************************************************)
(* C7: once the state is ERROR, no operation other than reset changes the  *)
(* state: add_user_message, process_bedrock_response, add_tool_result,     *)
(* continue_conversation, handle_timeout and force_continue leave it ERROR.*)
(***************************************************************************)
C7_ErrorAbsorbing ==
    state = ERROR =>
        /\ \A text \in UserTexts : submit_user_turn(Self, text).state = ERROR
        /\ \A response \in Responses : process_bedrock_response(Self, response).state = ERROR
        /\ \A i \in ToolUseIds, result \in Results : add_tool_result(Self, i, result).state = ERROR
        /\ prepare_continuation(Self).state = ERROR
        /\ \A order \in Orders(pending_tool_uses) :
              /\ handle_timeout(Self, order).state = ERROR
              /\ force_continue(Self, order).state = ERROR

(***************************************************************************)
(* C8: SubmitUserTurn(text) in IDLE appends exactly one user turn holding  *)
(* the single text block and leaves the state WAITING_FOR_RESPONSE.        *)
(***************************************************************************)
C8_SubmitInIdle ==
    [][\A text \in UserTexts :
          (SubmitUserTurn(text) /\ state = IDLE)
          => /\ messages' = Append(messages, Message("user", <<TextBlock(text)>>))
             /\ state' = WAITING_FOR_RESPONSE]_vars

\* a second user turn submitted, after a round with a tool request
C8_Witness ==
    /\ state = WAITING_FOR_RESPONSE
    /\ Len(messages) >= 3
    /\ \E text \in UserTexts :
          /\ messages[Len(messages)] = Message("user", <<TextBlock(text)>>)
          /\ messages[1] = Message("user", <<TextBlock(text)>>)

(***************************************************************************)
(* C9: SubmitUserTurn in a state other than IDLE leaves the transcript,    *)
(* the pending set, the resolved set and the state unchanged.              *)
(***************************************************************************)
C9_SubmitRejected ==
    [][\A text \in UserTexts :
          (SubmitUserTurn(text) /\ state # IDLE)
          => UNCHANGED <<messages, pending_tool_uses, used_tool_results, state,
                         tool_calls, error_counts, last_error>>]_vars

\* a submit was refused while tool resolution is outstanding: the scenario
\* is left with the transcript still ending in the assistant's tool request
C9_Witness ==
    /\ state = PROCESSING_TOOLS
    /\ pending_tool_uses # {}
    /\ scn = OffScenario
    /\ Len(messages) = 2
    /\ messages[2].role = "assistant"
    /\ error_counts = [i \in DOMAIN error_counts |-> 0]
    /\ state_transition_time = "recent"

(***************************************************************************)
(* C10: process_bedrock_response called in a state other than              *)
(* WAITING_FOR_RESPONSE appends no turn, registers no pending request and  *)
(* leaves the state.                                                       *)
(***************************************************************************)
C10_IngestRequiresWaiting ==
    state # WAITING_FOR_RESPONSE =>
        \A response \in Responses :
            LET s == process_bedrock_response(Self, response)
            IN /\ s.messages = messages
               /\ s.pending_tool_uses = pending_tool_uses
               /\ s.state = state

(***************************************************************************)
(* Helpers of the claims about single calls.                               *)
(***************************************************************************)
\* the call left the whole session as it found it
SessionUnchanged ==
    UNCHANGED <<messages, tool_calls, state, pending_tool_uses, used_tool_results,
                current_tool_use_id, error_counts, last_error, state_transition_time>>

\* the content list of a response (none without an output message)
ContentOf(response) == IF response.hasMessage THEN response.content ELSE <<>>

\* the n-th position of content, in order, that holds a block of this kind
NthOfKind(content, kind, n) ==
    CHOOSE p \in DOMAIN content :
        /\ content[p].k = kind
        /\ Cardinality({q \in 1..p : content[q].k = kind}) = n

CountOfKind(content, kind) ==
    Cardinality({q \in DOMAIN content : content[q].k = kind})

(***************************************************************************)
(* C11: after IngestGatewayResponse in WAITING_FOR_RESPONSE, for every     *)
(* response, the state is IDLE when the response holds no toolUse block    *)
(* and PROCESSING_TOOLS otherwise, and every toolUse id of the response is *)
(* pending with its error count at zero.                                   *)
(***************************************************************************)
C11_IngestLeavesWaiting ==
    [][\A response \in Responses, caller \in Callers :
          (IngestGatewayResponse(response, caller) /\ state = WAITING_FOR_RESPONSE)
          => /\ state' = IF tool_uses(response) = <<>> THEN IDLE ELSE PROCESSING_TOOLS
             /\ \A i \in ToolUseIdsOf(ContentOf(response)) :
                   /\ i \in pending_tool_uses'
                   /\ i \in DOMAIN error_counts'
                   /\ error_counts'[i] = 0]_vars

(***************************************************************************)
(* C12 as stated: IngestGatewayResponse appends exactly one assistant turn *)
(* holding the blocks of the response, for every response.                 *)
(***************************************************************************)
C12_AlwaysAppendsTurn ==
    [][\A response \in Responses, caller \in Callers :
          IngestGatewayResponse(response, caller)
          => messages' = Append(messages, Message("assistant", ContentOf(response)))]_vars

(***************************************************************************)
(* C12 amended: for a response whose output message holds at least one     *)
(* block, IngestGatewayResponse appends exactly one assistant turn whose   *)
(* content is the blocks of the response in their order; for a response    *)
(* with no output message or no block it appends nothing.  The returned    *)
(* text is the text of the text blocks in response order, the returned     *)
(* tool requests are the toolUse blocks in response order.                 *)
(***************************************************************************)
C12_IngestAppendsTurn ==
    /\ [][\A response \in Responses, caller \in Callers :
            IngestGatewayResponse(response, caller)
            => messages' = IF ContentOf(response) # <<>>
                           THEN Append(messages, Message("assistant", response.content))
                           ELSE messages]_vars
    /\ [](\A response \in Responses :
            LET c == ContentOf(response)
                text == result_text(response)
                uses == tool_uses(response)
            IN /\ Len(text) = CountOfKind(c, "text")
               /\ \A n \in DOMAIN text : text[n] = c[NthOfKind(c, "text", n)].v
               /\ Len(uses) = CountOfKind(c, "toolUse")
               /\ \A n \in DOMAIN uses : uses[n] = c[NthOfKind(c, "toolUse", n)])

\* a turn with a tool request before its text was appended in that order
C12_Witness ==
    /\ Len(messages) >= 2
    /\ messages[Len(messages)] =
          Message("assistant", <<ToolUseBlock(2), TextBlock("answer")>>)
    /\ state = PROCESSING_TOOLS

\* a pending request: an id of the pending set still awaiting its result
AwaitsResult(i) == i \in pending_tool_uses /\ i \notin used_tool_results

\* the result is terminal for the id: a success, or the error that takes the
\* error count past max_retries
Terminal(i, result) ==
    ~result.error \/ Get(error_counts, i, 0) + 1 > max_retries

(***************************************************************************)
(* C13: a terminal ResolveToolRequest for a pending id appends one user    *)
(* turn holding exactly one toolResult block with that id (payload text    *)
(* for string content, the empty string of a result without content        *)
(* included, json otherwise), removes the id from the pending              *)
(* set and adds it to the resolved set; the state becomes CONTINUING       *)
(* exactly when the pending set has become empty and stays                 *)
(* PROCESSING_TOOLS otherwise.                                             *)
(***************************************************************************)
C13_TerminalResolve ==
    [][\A i \in ToolUseIds, result \in Results :
          (ResolveToolRequest(i, result) /\ AwaitsResult(i) /\ Terminal(i, result))
          => /\ messages' = Append(messages, Message("user",
                   <<ToolResultBlock(i,
                        IF result.ctype = "obj" THEN "json" ELSE "text",
                        IF result.ctype = "absent" THEN "" ELSE result.cval)>>))
             /\ pending_tool_uses' = pending_tool_uses \ {i}
             /\ used_tool_results' = used_tool_results \cup {i}
             /\ state' = IF pending_tool_uses' = {} THEN CONTINUING ELSE PROCESSING_TOOLS]_vars

\* a structured result was recorded while another request was still pending
C13_Witness ==
    /\ state = PROCESSING_TOOLS
    /\ pending_tool_uses = {2}
    /\ used_tool_results = {1}
    /\ messages[Len(messages)] = Message("user", <<ToolResultBlock(1, "json", "product")>>)

(***************************************************************************)
(* C14: an error result that leaves the error count of a pending id at or  *)
(* below max_retries changes only that count: the id stays pending and the *)
(* transcript, the resolved set and the state are unchanged.               *)
(***************************************************************************)
C14_RetryOnlyCounts ==
    [][\A i \in ToolUseIds, result \in Results :
          (/\ ResolveToolRequest(i, result)
           /\ AwaitsResult(i)
           /\ result.error
           /\ ~Terminal(i, result))
          => /\ error_counts' = Put(error_counts, i, Get(error_counts, i, 0) + 1)
             /\ UNCHANGED <<messages, tool_calls, state, pending_tool_uses,
                            used_tool_results, current_tool_use_id, last_error,
                            state_transition_time>>]_vars

\* the second failure of a request that is still pending
C14_Witness ==
    /\ state = PROCESSING_TOOLS
    /\ 1 \in pending_tool_uses
    /\ 1 \notin used_tool_results
    /\ Get(error_counts, 1, 0) = 2
    /\ errorCalls[1] = 2

(***************************************************************************)
(* C15: ResolveToolRequest for an id that is neither pending nor carried   *)
(* by a toolUse block of the transcript changes nothing: transcript,       *)
(* pending set, resolved set, error counts and state.                      *)
(***************************************************************************)
C15_UnknownIdRefused ==
    [][\A i \in ToolUseIds, result \in Results :
          (/\ ResolveToolRequest(i, result)
           /\ i \notin pending_tool_uses
           /\ ~tool_exists_in_history(messages, i))
          => /\ SessionUnchanged
             /\ ~add_tool_result_returns_message(Self, i, result)]_vars

\* a session waiting for the result of request 1 that never saw request 2
C15_Witness ==
    /\ state = PROCESSING_TOOLS
    /\ pending_tool_uses = {1}
    /\ ~tool_exists_in_history(messages, 2)
    /\ 2 \notin DOMAIN error_counts
    /\ scn = OffScenario

\* continue_conversation gets past its state test and fetches the transcript
\* for the gateway call
HandsOutTranscript(self) == ~(self.state # CONTINUING)

\* the session takes a user turn: the turn is appended and sent to the gateway
AcceptsUserTurn(self) ==
    \A text \in UserTexts :
        LET s == submit_user_turn(self, text)
        IN /\ s.messages = Append(self.messages, Message("user", <<TextBlock(text)>>))
           /\ s.state = WAITING_FOR_RESPONSE

(***************************************************************************)
(* C16: PrepareContinuation in CONTINUING hands out the full transcript    *)
(* and leaves the state WAITING_FOR_RESPONSE; in every other state it      *)
(* hands out no transcript and changes nothing.                            *)
(***************************************************************************)
C16_PrepareRequiresContinuing ==
    [][PrepareContinuation
       => IF state = CONTINUING
          THEN /\ HandsOutTranscript(Self)
               /\ get_bedrock_messages(Self).messages = messages
               /\ messages' = messages
               /\ state' = WAITING_FOR_RESPONSE
          ELSE /\ ~HandsOutTranscript(Self)
               /\ SessionUnchanged]_vars

\* the transcript ending in a tool result has gone to the gateway
C16_Witness ==
    /\ state = WAITING_FOR_RESPONSE
    /\ scn.step = 4
    /\ messages[Len(messages)].content[1].k = "toolResult"

(***************************************************************************)
(* C17: Reset can be taken in every state and yields the empty session:    *)
(* no transcript, no pending id, no resolved id, no error count, no last   *)
(* error, state IDLE; the session then accepts a user turn.                *)
(***************************************************************************)
C17_ResetEmpties ==
    /\ [](ENABLED Reset)
    /\ [][Reset
          => /\ messages' = <<>>
             /\ pending_tool_uses' = {}
             /\ used_tool_results' = {}
             /\ error_counts' = EmptyDict
             /\ last_error' = NoError
             /\ state' = IDLE
             /\ AcceptsUserTurn(Self')]_vars

\* a fresh session whose clock shows that it has been used before
C17_Witness ==
    /\ scn.step = 0
    /\ state = IDLE
    /\ messages = <<>>
    /\ used_tool_results = {}
    /\ state_transition_time = "overdue"

(***************************************************************************)
(* C18: HandleTimeout firing in WAITING_FOR_RESPONSE records the timeout   *)
(* as the last error and moves to ERROR, the transcript unchanged.         *)
(***************************************************************************)
C18_TimeoutWhileWaiting ==
    [][(HandleTimeout /\ state = WAITING_FOR_RESPONSE /\ timed_out(Self))
       => /\ last_error' = "Timed out waiting for Bedrock response"
          /\ state' = ERROR
          /\ messages' = messages]_vars

C18_Witness ==
    /\ state = ERROR
    /\ last_error = "Timed out waiting for Bedrock response"
    /\ messages # <<>>

(***************************************************************************)
(* C19: HandleTimeout firing in CONTINUING moves to IDLE, hands nothing to *)
(* the gateway and leaves the transcript unchanged; the session then       *)
(* accepts a user turn.                                                    *)
(***************************************************************************)
C19_TimeoutWhileContinuing ==
    [][(HandleTimeout /\ state = CONTINUING /\ timed_out(Self))
       => /\ state' = IDLE
          /\ messages' = messages
          /\ ~HandsOutTranscript(Self')
          /\ AcceptsUserTurn(Self')]_vars

\* an idle session whose transcript ends in a tool result no answer followed
C19_Witness ==
    /\ state = IDLE
    /\ state_transition_time = "recent"
    /\ scn = OffScenario
    /\ Len(messages) = 3
    /\ messages[3].content[1].k = "toolResult"
    /\ pending_tool_uses = {}

(***************************************************************************)
(* C20: HandleTimeout changes nothing (state, transcript, pending set,     *)
(* resolved set, last error) in IDLE, in ERROR, and in any state not held  *)
(* longer than the threshold, a session without a transition included.     *)
(***************************************************************************)
C20_TimeoutNoAction ==
    [][(HandleTimeout /\ (state \in {IDLE, ERROR} \/ state_transition_time # "overdue"))
       => SessionUnchanged]_vars

\* an overdue ERROR session on which a call off the scenario was made
C20_Witness ==
    /\ state = ERROR
    /\ state_transition_time = "overdue"
    /\ last_error = "gateway error"
    /\ scn = OffScenario

(***************************************************************************)
(* Helpers of the claims about the transcript and the two sets.            *)
(***************************************************************************)
\* the position of the most recent assistant message
LastAssistant(msgs) ==
    CHOOSE n \in DOMAIN msgs :
        /\ msgs[n].role = "assistant"
        /\ \A m \in DOMAIN msgs : msgs[m].role = "assistant" => m <= n

HasAssistant(msgs) == \E n \in DOMAIN msgs : msgs[n].role = "assistant"

\* a toolResult for the id in a message after position n
ResultAfter(msgs, i, n) ==
    \E m \in DOMAIN msgs : m > n /\ HasBlock(msgs[m], "toolResult", i)

\* the toolUse blocks of the transcript that carry the id, as positions
ToolUsePositions(msgs, i) ==
    UNION {{<<n, j>> : j \in {k \in DOMAIN msgs[n].content :
                                 /\ msgs[n].content[k].k = "toolUse"
                                 /\ msgs[n].content[k].id = i}} : n \in DOMAIN msgs}

(***************************************************************************)
(* C21: whenever the state is CONTINUING the pending set is empty.         *)
(***************************************************************************)
C21_ContinuingNothingPending ==
    state = CONTINUING => pending_tool_uses = {}

(***************************************************************************)
(* C22: whenever the state is PROCESSING_TOOLS the pending set is not      *)
(* empty, and it holds a tool request of the last gateway response that    *)
(* has no result yet.                                                      *)
(***************************************************************************)
C22_ProcessingHasOpenRequest ==
    state = PROCESSING_TOOLS
    => /\ pending_tool_uses # {}
       /\ HasAssistant(messages)
       /\ \E i \in pending_tool_uses :
             /\ i \in ToolUseIdsOf(messages[LastAssistant(messages)].content)
             /\ ~ResultAfter(messages, i, LastAssistant(messages))

(***************************************************************************)
(* C24: in every reachable state the transcript holds at most one toolUse  *)
(* block per id, whatever ids the gateway responses carry.                 *)
(***************************************************************************)
C24_ToolUseIdsUnique ==
    \A i \in ToolUseIds : Cardinality(ToolUsePositions(messages, i)) <= 1

(***************************************************************************)
(* C27: the pending set and the resolved set are disjoint in every         *)
(* reachable state.                                                        *)
(***************************************************************************)
C27_PendingResolvedDisjoint ==
    pending_tool_uses \cap used_tool_results = {}

(***************************************************************************)
(* The repair pass on transcripts built by hand.  The message list is a    *)
(* public attribute; a session is given any list of at most MaxHandBuilt   *)
(* messages, some without a role or without a content, and the repair pass *)
(* or get_bedrock_messages is run on it.                                   *)
(***************************************************************************)
MaxHandBuilt == 3

RawMessages ==
    { Message("user", <<TextBlock("show me product X")>>),
      Message("user", <<ToolResultBlock(1, "text", "ok")>>),
      Message("user", <<ToolResultBlock(2, "text", "ok")>>),
      Message("assistant", <<TextBlock("answer")>>),
      Message("assistant", <<ToolUseBlock(1)>>),
      [content |-> <<TextBlock("answer")>>],
      [role |-> "assistant"] }

HandBuilt == UNION {[1..n -> RawMessages] : n \in 0..MaxHandBuilt}

\* the scenario of a repaired hand-built transcript with adjacent same-role turns
Repaired == AtStep(6, NoId)

RepairInit ==
    /\ messages \in HandBuilt
    /\ tool_calls = InitSelf.tool_calls
    /\ state = InitSelf.state
    /\ pending_tool_uses = InitSelf.pending_tool_uses
    /\ used_tool_results = InitSelf.used_tool_results
    /\ current_tool_use_id = InitSelf.current_tool_use_id
    /\ error_counts = InitSelf.error_counts
    /\ last_error = InitSelf.last_error
    /\ state_transition_time = InitSelf.state_transition_time
    /\ errorCalls = [i \in ToolUseIds |-> 0]
    /\ scn = AtStep(0, NoId)
    /\ mcp_servers = EmptyDict
    /\ name_mapping = EmptyDict

\* the roles the repair pass sees once every message has one
FixedRoles(msgs) == [n \in DOMAIN msgs |-> fix_message(msgs[n]).role]

RepairMessageSequence ==
    /\ messages' = repair_message_sequence(messages)
    /\ scn' = IF \E n \in 1..(Len(messages) - 1) :
                    FixedRoles(messages)[n] = FixedRoles(messages)[n + 1]
              THEN Repaired
              ELSE OffScenario
    /\ UNCHANGED <<tool_calls, state, pending_tool_uses, used_tool_results,
                   current_tool_use_id, error_counts, last_error,
                   state_transition_time, errorCalls, mcp_servers, name_mapping>>

GetBedrockMessages ==
    /\ \E s \in {get_bedrock_messages(Self)} : SetSelf(s)
    /\ ObserveOther
    /\ UNCHANGED errorCalls

RepairNext == RepairMessageSequence \/ GetBedrockMessages

RepairSpec == RepairInit /\ [][RepairNext]_vars

\* every content block of the transcript, in order
RECURSIVE AllBlocks(_)
AllBlocks(msgs) ==
    IF msgs = <<>>
    THEN <<>>
    ELSE (IF "content" \in DOMAIN Head(msgs) THEN Head(msgs).content ELSE <<>>)
         \o AllBlocks(Tail(msgs))

\* every toolUse block without a toolResult of the same id sits in the most
\* recent assistant message
UnmatchedOnlyInLastTurn(msgs) ==
    \A n \in DOMAIN msgs : \A i \in ToolUseIds :
        (/\ msgs[n].role = "assistant"
         /\ HasBlock(msgs[n], "toolUse", i)
         /\ ~\E m \in DOMAIN msgs : HasBlock(msgs[m], "toolResult", i))
        => n = LastAssistant(msgs)

\* every toolResult block follows a toolUse block of the same id
NoOrphanResult(msgs) ==
    \A n \in DOMAIN msgs : \A i \in ToolUseIds :
        HasBlock(msgs[n], "toolResult", i)
        => \E m \in 1..(n - 1) : HasBlock(msgs[m], "toolUse", i)

(***************************************************************************)
(* C23: in the transcript get_bedrock_messages hands out, every toolUse    *)
(* block that has no toolResult with the same id belongs to the most       *)
(* recent assistant turn: the repair has removed any other.                *)
(***************************************************************************)
C23_UnmatchedRequestsRepaired ==
    [][GetBedrockMessages => UnmatchedOnlyInLastTurn(messages')]_vars

(***************************************************************************)
(* C25: the repair pass applied to any transcript yields one in which no   *)
(* two adjacent turns share a role and whose content blocks, taken in      *)
(* order, are those of the input.                                          *)
(***************************************************************************)
C25_RepairMerges ==
    [][RepairMessageSequence
       => /\ Alternates(messages')
          /\ AllBlocks(messages') = AllBlocks(messages)]_vars

\* two hand-built user turns merged into one
C25_Witness ==
    /\ scn = Repaired
    /\ messages = <<Message("user", <<TextBlock("show me product X"),
                                      ToolResultBlock(1, "text", "ok")>>)>>

(***************************************************************************)
(* C26: the transcript the repair pass yields holds no toolResult block    *)
(* without a toolUse block of the same id earlier in the transcript.       *)
(***************************************************************************)
C26_RepairDropsOrphans ==
    [][RepairMessageSequence => NoOrphanResult(messages')]_vars

(***************************************************************************)
(* The driver of app.py.  Every handler runs to its end in one step, the   *)
(* gateway call and the tool call it makes included: the script blocks in  *)
(* them.  process_conversation_state is one iteration of the loop.         *)
(***************************************************************************)
\* what a tool invocation can come to in call_tool
ToolOutcomes == {"success", "unknown_tool", "transport_error", "remote_error"}

\* app.py 292-337 and 203-241: every failure comes back as a content string
call_tool(outcome) ==
    IF outcome = "success"
    THEN [error |-> FALSE, ctype |-> "str", cval |-> "ok"]
    ELSE IF outcome = "unknown_tool"
         THEN [error |-> FALSE, ctype |-> "str", cval |-> "Error: Unknown tool"]
         ELSE [error |-> FALSE, ctype |-> "str", cval |-> "Error executing tool"]

\* what bedrock_runtime.converse can come to: a response, or an exception
GatewayFaulted == [hasMessage |-> FALSE, content |-> <<>>, raised |-> TRUE]
GatewayOutcomes ==
    {[hasMessage |-> r.hasMessage, content |-> r.content, raised |-> FALSE] : r \in Responses}
    \cup {GatewayFaulted}

\* the transcript leaves room, within the bound of the model, for the results
\* of the requests that still await one
Reserves(s) ==
    Len(s.messages) + Cardinality(s.pending_tool_uses \ s.used_tool_results) <= MaxMsgs

\* the converse call and what the handler does with its outcome
converse(self, outcome, caller) ==
    IF outcome.raised
    THEN gateway_fault(self)
    ELSE ingest_gateway_response(
            self, [hasMessage |-> outcome.hasMessage, content |-> outcome.content], caller)

\* app.py 897-985
chat_input(self, text, outcome) ==
    converse(submit_user_turn(self, text), outcome, "chat_input")

\* app.py 460-543
continue_conversation(self, outcome) ==
    IF self.state # CONTINUING
    THEN self
    ELSE converse(prepare_continuation(self), outcome, "continue_conversation")

\* app.py 400-458; pick is the id next(iter(pending_tool_uses)) yields
process_tool_use(self, order, pick, tool_outcome, outcome) ==
    IF self.pending_tool_uses = {}
    THEN continue_conversation(transition_to(self, CONTINUING), outcome)
    ELSE LET s1 == [self EXCEPT !.current_tool_use_id = pick]
         IN IF pick \notin DOMAIN s1.tool_calls
            THEN force_continue(s1, SelectSeq(order, LAMBDA i : i \in s1.pending_tool_uses))
            ELSE add_tool_result(s1, pick, call_tool(tool_outcome))

\* app.py 369-398
process_conversation_state(self, order, pick, tool_outcome, outcome) ==
    LET s1 == handle_timeout(self, order)
    IN IF self.state = PROCESSING_TOOLS
       THEN process_tool_use(s1, order, pick, tool_outcome, outcome)
       ELSE IF self.state = CONTINUING
            THEN continue_conversation(s1, outcome)
            ELSE s1

\* the ids get_next_pending_tool_id may return (NoId: none pending)
Picks(self, order) ==
    IF handle_timeout(self, order).pending_tool_uses = {}
    THEN {NoId}
    ELSE handle_timeout(self, order).pending_tool_uses

ChatInput(text, outcome) ==
    /\ is_idle(Self)
    /\ \E s \in {chat_input(Self, text, outcome)} : Reserves(s) /\ SetSelf(s)
    /\ ObserveOther
    /\ UNCHANGED errorCalls

ProcessConversationState(order, pick, tool_outcome, outcome) ==
    /\ \E s \in {process_conversation_state(Self, order, pick, tool_outcome, outcome)} :
          Reserves(s) /\ SetSelf(s)
    /\ ObserveOther
    /\ UNCHANGED errorCalls

ResetButton ==
    /\ state \in {ERROR, WAITING_FOR_RESPONSE, CONTINUING}
    /\ \E s \in {reset(Self)} : SetSelf(s)
    /\ ObserveOther
    /\ UNCHANGED errorCalls

ForceContinueButton ==
    /\ state = PROCESSING_TOOLS
    /\ \E order \in Orders(pending_tool_uses) :
          \E s \in {force_continue(Self, order)} : SetSelf(s)
    /\ ObserveOther
    /\ UNCHANGED errorCalls

DriverLoop ==
    \E order \in Orders(pending_tool_uses) :
       \E pick \in Picks(Self, order), tool_outcome \in ToolOutcomes,
          outcome \in GatewayOutcomes :
          ProcessConversationState(order, pick, tool_outcome, outcome)

DriverNext ==
    \/ \E text \in UserTexts, outcome \in GatewayOutcomes : ChatInput(text, outcome)
    \/ DriverLoop
    \/ ResetButton
    \/ ForceContinueButton
    \/ Tick

DriverSpec == Init /\ [][DriverNext]_vars

\* the gateway answers a continuation with a turn that holds no tool request
FinalOutcomes == {o \in GatewayOutcomes : ~o.raised /\ ToolUseIdsOf(o.content) = {}}

FinalAnswer ==
    /\ state = CONTINUING
    /\ \E order \in Orders(pending_tool_uses) :
          \E pick \in Picks(Self, order), tool_outcome \in ToolOutcomes,
             outcome \in FinalOutcomes :
             ProcessConversationState(order, pick, tool_outcome, outcome)

\* the loop keeps iterating, time passes, and the gateway does not answer
\* every continuation with tool requests
DriverLive ==
    /\ DriverSpec
    /\ WF_vars(DriverLoop)
    /\ WF_vars(Tick)
    /\ SF_vars(FinalAnswer)

(***************************************************************************)
(* C28: a tool invocation that fails in the driver reaches add_tool_result *)
(* as an error result: the error count of the id is incremented, the       *)
(* request stays pending and nothing is recorded while the count is at or  *)
(* below max_retries.                                                      *)
(***************************************************************************)
C28_DriverFailureRetried ==
    [][\A order \in Orders(pending_tool_uses), pick \in pending_tool_uses,
          tool_outcome \in ToolOutcomes \ {"success"}, outcome \in GatewayOutcomes :
          (/\ ProcessConversationState(order, pick, tool_outcome, outcome)
           /\ state = PROCESSING_TOOLS
           /\ state_transition_time # "overdue"
           /\ pick \notin used_tool_results
           /\ Get(error_counts, pick, 0) + 1 <= max_retries)
          => /\ pick \in pending_tool_uses'
             /\ error_counts' = Put(error_counts, pick, Get(error_counts, pick, 0) + 1)
             /\ messages' = messages]_vars

RECURSIVE feed(_, _, _)
feed(self, i, run) ==
    IF run = <<>> \/ i \notin self.pending_tool_uses
    THEN self
    ELSE feed(add_tool_result(self, i, Head(run)), i, Tail(run))

\* the same for every id of the pending set, in the order given
RECURSIVE feed_all(_, _, _)
feed_all(self, order, run) ==
    IF order = <<>>
    THEN self
    ELSE feed_all(feed(self, Head(order), run), Tail(order), run)

\* the results of max_retries + 1 calls, successes and errors in any mix
ResultRuns == [1..(max_retries + 1) -> Results]

(***************************************************************************)
(* C30: in PROCESSING_TOOLS, once the driver has fed at most               *)
(* max_retries + 1 results, successes or errors in any mix, for each       *)
(* pending id, the pending set is empty and the state is CONTINUING.       *)
(***************************************************************************)
C30_RoundTerminates ==
    state = PROCESSING_TOOLS
    => \A order \in Orders(pending_tool_uses), run \in ResultRuns :
          \E s \in {feed_all(Self, order, run)} :
             /\ s.pending_tool_uses = {}
             /\ s.state = CONTINUING

\* the toolResult blocks of the transcript that carry the id, as positions
ToolResultPositions(msgs, i) ==
    UNION {{<<n, j>> : j \in {k \in DOMAIN msgs[n].content :
                                 /\ msgs[n].content[k].k = "toolResult"
                                 /\ msgs[n].content[k].id = i}} : n \in DOMAIN msgs}

\* the ids the transcript holds a toolResult for
ResultIds(msgs) == {i \in ToolUseIds : ToolResultPositions(msgs, i) # {}}

\* the set of messages of a transcript, whatever their order
MessageSet(msgs) == {msgs[n] : n \in DOMAIN msgs}

IsPrefix(a, b) == Len(a) <= Len(b) /\ SubSeq(b, 1, Len(a)) = a

(***************************************************************************)
(* C31: in a round with the two pending ids 1 and 2, both awaiting their   *)
(* result, feeding terminal results in the order 1, 2 and in the order     *)
(* 2, 1 ends in CONTINUING with an empty pending set, the same resolved    *)
(* set and transcripts that hold the same toolResult messages in a         *)
(* different order.                                                        *)
(***************************************************************************)
C31_ResolutionsCommute ==
    (state = PROCESSING_TOOLS /\ pending_tool_uses = {1, 2} /\ AwaitsResult(1) /\ AwaitsResult(2))
    => \A ra \in Results, rb \in Results :
          (Terminal(1, ra) /\ Terminal(2, rb))
          => \E x \in {add_tool_result(add_tool_result(Self, 1, ra), 2, rb)},
                y \in {add_tool_result(add_tool_result(Self, 2, rb), 1, ra)} :
                /\ x.state = CONTINUING /\ y.state = CONTINUING
                /\ x.pending_tool_uses = {} /\ y.pending_tool_uses = {}
                /\ x.used_tool_results = y.used_tool_results
                /\ x.used_tool_results = used_tool_results \cup {1, 2}
                /\ Len(x.messages) = Len(messages) + 2
                /\ Len(y.messages) = Len(messages) + 2
                /\ IsPrefix(messages, x.messages) /\ IsPrefix(messages, y.messages)
                /\ MessageSet(x.messages) = MessageSet(y.messages)
                /\ x.messages[Len(x.messages)] = y.messages[Len(y.messages) - 1]

\* the round of ids 1 and 2 resolved in the order 2, 1
C31_Witness ==
    /\ state = CONTINUING
    /\ pending_tool_uses = {}
    /\ used_tool_results = {1, 2}
    /\ Len(messages) = 4
    /\ HasBlock(messages[3], "toolResult", 2)
    /\ HasBlock(messages[4], "toolResult", 1)

(***************************************************************************)
(* C32: whenever the state is IDLE the pending set is empty.               *)
(***************************************************************************)
C32_IdleNothingPending ==
    state = IDLE => pending_tool_uses = {}

(***************************************************************************)
(* C33: in every reachable state the transcript holds at most one          *)
(* toolResult block per id.                                                *)
(***************************************************************************)
C33_OneResultPerId ==
    \A i \in ToolUseIds : Cardinality(ToolResultPositions(messages, i)) <= 1

\* a repeated call for id 1 re-added it to the pending set and recorded nothing
C33_Witness ==
    /\ state = CONTINUING
    /\ pending_tool_uses = {1}
    /\ 1 \in used_tool_results
    /\ Cardinality(ToolResultPositions(messages, 1)) = 1

(***************************************************************************)
(* C34: in every reachable state an id is in used_tool_results if and only *)
(* if the transcript holds a toolResult block with that id.                *)
(***************************************************************************)
C34_ResolvedMirrorsTranscript ==
    used_tool_results = ResultIds(messages)

C34_Witness ==
    /\ used_tool_results = {1, 2}
    /\ ResultIds(messages) = {1, 2}
    /\ state = WAITING_FOR_RESPONSE

(***************************************************************************)
(* C35: the error count of every id stays within 0 .. max_retries + 1; a   *)
(* call for an id whose result is recorded increments no count, and        *)
(* force_continue increments no count.                                     *)
(***************************************************************************)
C35_ErrorCountRange ==
    /\ [](\A i \in DOMAIN error_counts : error_counts[i] \in 0..(max_retries + 1))
    /\ [][\A i \in ToolUseIds, result \in Results :
            (ResolveToolRequest(i, result) /\ i \in used_tool_results)
            => error_counts' = error_counts]_vars
    /\ [][ForceContinue => error_counts' = error_counts]_vars

\* the terminal error of id 1 was recorded with the count one above the ceiling
C35_Witness ==
    /\ 1 \in used_tool_results
    /\ 1 \in DOMAIN error_counts
    /\ error_counts[1] = max_retries + 1

(***************************************************************************)
(* C36: in every reachable state every pending id is a key of tool_calls,  *)
(* so get_tool_use finds the details of any id the pending set yields.     *)
(***************************************************************************)
C36_PendingHaveDetails ==
    pending_tool_uses \subseteq DOMAIN tool_calls

\* an idle session with an id re-added to the pending set by the history scan
C36_Witness ==
    /\ state = IDLE
    /\ pending_tool_uses = {2}
    /\ 2 \in DOMAIN tool_calls

(***************************************************************************)
(* C37: whenever the state is ERROR a last error is recorded.              *)
(***************************************************************************)
C37_ErrorHasLastError ==
    state = ERROR => last_error # NoError

C37_Witness ==
    /\ state = ERROR
    /\ last_error = "gateway error"
    /\ state_transition_time = "recent"

(***************************************************************************)
(* C38: SubmitUserTurn, IngestGatewayResponse, ResolveToolRequest,         *)
(* PrepareContinuation, HandleTimeout and force_continue leave the         *)
(* transcript they found as a prefix of the transcript they produce.       *)
(***************************************************************************)
C38_TranscriptAppendOnly ==
    [][(\/ \E text \in UserTexts : SubmitUserTurn(text)
        \/ \E response \in Responses, caller \in Callers :
              IngestGatewayResponse(response, caller)
        \/ \E i \in ToolUseIds, result \in Results : ResolveToolRequest(i, result)
        \/ PrepareContinuation
        \/ HandleTimeout
        \/ ForceContinue)
       => IsPrefix(messages, messages')]_vars

\* two adjacent toolResult turns went to the gateway as they were
C38_Witness ==
    /\ state = WAITING_FOR_RESPONSE
    /\ Len(messages) = 4
    /\ messages[3].role = "user"
    /\ messages[4].role = "user"
    /\ HasBlock(messages[4], "toolResult", 2)

(***************************************************************************)
(* BedrockMcpAdapter: the registry of MCP servers and of the tools they    *)
(* serve, under the names the gateway knows them by.  A name is the        *)
(* sequence of its characters.                                             *)
(***************************************************************************)
ServerNames == {<<"s", "-", "a">>, <<"s", "_", "a">>}
McpToolNames == {<<"t">>, <<"a", "-", "t">>, <<"a", "_", "t">>}
ServerUrls == {"https://one", "https://two"}

\* the adapter object
Adapter == [mcp_servers |-> mcp_servers, name_mapping |-> name_mapping]

SetAdapter(a) ==
    /\ mcp_servers' = a.mcp_servers
    /\ name_mapping' = a.name_mapping
    /\ UNCHANGED <<messages, tool_calls, state, pending_tool_uses, used_tool_results,
                   current_tool_use_id, error_counts, last_error,
                   state_transition_time, errorCalls, scn>>

\* str.replace('-', '_')
replace(name) == [n \in DOMAIN name |-> IF name[n] = "-" THEN "_" ELSE name[n]]

\* f"{server_name.replace('-', '_')}_{bedrock_name}"
qualified_bedrock_name(server_name, mcp_name) ==
    replace(server_name) \o <<"_">> \o replace(mcp_name)

register_server(self, server_name, server_url) ==
    [self EXCEPT !.mcp_servers = Put(@, server_name, [url |-> server_url, tools |-> {}])]

\* _register_tool; the tools dict of a server is kept as the set of its keys
register_tool(self, server_name, mcp_name) ==
    [self EXCEPT
       !.name_mapping = Put(@, qualified_bedrock_name(server_name, mcp_name),
                            [server |-> server_name, method |-> mcp_name]),
       !.mcp_servers[server_name].tools = @ \cup {mcp_name}]

\* for tool in tools: self._register_tool(server_name, tool)
RECURSIVE register_tools(_, _, _)
register_tools(self, server_name, tools) ==
    IF tools = <<>> THEN self
    ELSE register_tools(register_tool(self, server_name, Head(tools)),
                        server_name, Tail(tools))

\* what a tools/list request brings back: a list of tools, or a failure
ToolLists == UNION {Orders(S) : S \in SUBSET McpToolNames}
ListAnswers ==
    [ok : {TRUE}, tools : ToolLists] \cup [ok : {FALSE}, tools : {<<>>}]

discover_tools(self, server_name, answer) ==
    IF server_name \notin DOMAIN self.mcp_servers THEN self
    ELSE IF answer.ok THEN register_tools(self, server_name, answer.tools)
    ELSE self

translate_tool_call(self, bedrock_tool_name) ==
    IF bedrock_tool_name \notin DOMAIN self.name_mapping
    THEN [raised |-> TRUE, server_url |-> "", method |-> <<>>]
    ELSE LET mapping == self.name_mapping[bedrock_tool_name]
         IN  [raised |-> FALSE,
              server_url |-> self.mcp_servers[mapping.server].url,
              method |-> mapping.method]

RegisterServer(server_name, server_url) ==
    \E a \in {register_server(Adapter, server_name, server_url)} : SetAdapter(a)

DiscoverTools(server_name, answer) ==
    \E a \in {discover_tools(Adapter, server_name, answer)} : SetAdapter(a)

AdapterNext ==
    \/ \E server_name \in ServerNames, server_url \in ServerUrls :
          RegisterServer(server_name, server_url)
    \/ \E server_name \in ServerNames, answer \in ListAnswers :
          DiscoverTools(server_name, answer)

AdapterSpec == Init /\ [][AdapterNext]_vars

\* the (server name, MCP tool name) pairs the adapter holds
RegisteredPairs ==
    UNION {{<<server_name, mcp_name>> : mcp_name \in mcp_servers[server_name].tools} :
           server_name \in DOMAIN mcp_servers}

(***************************************************************************)
(* C39: two distinct registered (server name, MCP tool name) pairs never   *)
(* share a qualified name, and translate_tool_call of the qualified name   *)
(* of a registered pair returns the URL of that pair's server and that     *)
(* pair's MCP tool name.                                                   *)
(***************************************************************************)
C39_QualifiedNamesCollisionFree ==
    /\ \A p, q \in RegisteredPairs :
          qualified_bedrock_name(p[1], p[2]) = qualified_bedrock_name(q[1], q[2])
             => p = q
    /\ \A p \in RegisteredPairs :
          translate_tool_call(Adapter, qualified_bedrock_name(p[1], p[2]))
             = [raised |-> FALSE, server_url |-> mcp_servers[p[1]].url, method |-> p[2]]

====
